---- MODULE Spec2Model ----
(***************************************************************************)
(* Reminder timing state machine of eye_care_rs (src/main.rs): the closure *)
(* handed to event_loop.run, its MainEventsCleared and RedrawRequested     *)
(* handlers, the state the closure captures and the control flow value it  *)
(* leaves to the host event loop.  Instants and durations are integers in  *)
(* milliseconds; the instant of process start is 0.                        *)
(***************************************************************************)
EXTENDS Integers, Sequences, FiniteSets, TLC

\* ---- bounds of the exploration -------------------------------------------
MaxIntervalSecs == 2
MaxDurationSecs == 2
MaxTime == 7000
MaxAdvances == 12
MaxZeroDelay == 3
MaxDeviations == 1

\* flash_interval values (milliseconds) the exploration starts from
FlashMillis == {0, 300, 500, 1000, 1500, 2500}

\* ---- std::time::Duration constructors ------------------------------------
MsPerSec == 1000

from_secs(s) == s * MsPerSec

from_millis(m) == m

\* ---- Option<T>: None is the empty sequence, Some(x) is <<x>> --------------
None == << >>

Some(x) == << x >>

is_none(o) == Len(o) = 0

unwrap(o) == o[1]

\* ---- the palette ----------------------------------------------------------
colors ==
  << <<255, 255, 255, 255>>,
     <<0, 0, 0, 255>>,
     <<0, 255, 0, 255>>,
     <<0, 0, 255, 255>>,
     <<255, 255, 0, 255>>,
     <<255, 165, 0, 255>>,
     <<0, 255, 255, 255>>,
     <<255, 0, 0, 255>> >>

VARIABLES
  reminder_interval,   \* Duration, ms
  reminder_duration,   \* Duration, ms
  switch_interval,     \* Duration, ms
  last_reminder,       \* Instant
  reminder_start,      \* Option<Instant>
  last_switch,         \* Instant
  color_index,         \* index into colors, 0-based
  pixels,              \* Option<Pixels>: the size the framebuffer was built for
  window,              \* the window: visible, fullscreen, always_on_top, size
  redraw_requested,    \* a RedrawRequested event is owed to the closure
  control_flow,        \* *control_flow as the host sees it
  now,                 \* the clock at the last handler run
  ev,                  \* the last handler run: "init", "tick", "redraw", "expose"
  last,                \* what the last MainEventsCleared run did
  advances,            \* colour advances of the current (or last) Active period
  nAdvances,           \* colour advances since process start
  zeroDelay,           \* consecutive ticks at the instant of the previous tick
  startLog,            \* instants of the Idle -> Active transitions
  endLog,              \* instants of the Active -> Idle transitions
  advLog,              \* instants of the colour advances
  endIndex,            \* color_index as the last Active -> Idle transition left it
  deviations,          \* runs of the closure that were not deadline-exact
  renderFailed,        \* pixels.render() has returned Err
  fs_sync,             \* the platform resizes the window inside set_fullscreen
  args,                \* Opt: the command-line values (seconds, seconds, ms)
  file                 \* the config file: whether it exists and what it gives

vars == << reminder_interval, reminder_duration, switch_interval, last_reminder,
           reminder_start, last_switch, color_index, pixels, window,
           redraw_requested, control_flow, now, ev, last, advances, nAdvances,
           zeroDelay, startLog, endLog, advLog, endIndex, deviations,
           renderFailed, fs_sync, args, file >>

params == << reminder_interval, reminder_duration, switch_interval, args, file >>

\* ---- ControlFlow ----------------------------------------------------------
Poll == [kind |-> "Poll", at |-> 0]

WaitUntil(t) == [kind |-> "WaitUntil", at |-> t]

Exit == [kind |-> "Exit", at |-> 0]

\* ---- the window as built by WindowBuilder --------------------------------
WindowedSize == "800x600"

ScreenSize == "screen"

InitWindow ==
  [visible |-> FALSE, fullscreen |-> FALSE, always_on_top |-> FALSE,
   size |-> WindowedSize]

NoTick ==
  [ticked |-> FALSE, now |-> 0, wasActive |-> FALSE, entered |-> FALSE, switched |-> FALSE,
   dup |-> FALSE, ended |-> FALSE, index0 |-> 0, last_reminder0 |-> 0,
   last_switch0 |-> 0, endIndex0 |-> 0, cmds |-> << >>, start0 |-> None]

\* ---- configuration: Opt, Config, read_config and the merge of main --------

\* Option::unwrap_or
unwrap_or(o, d) == IF is_none(o) THEN d ELSE unwrap(o)

\* impl Default for Config, lines 23-31
Config_default ==
  [interval |-> Some(1200), duration |-> Some(60), flash_interval |-> Some(1000)]

\* toml::from_str into Config under #[serde(default)], lines 15-21 and 85: a
\* key the text gives is Some(value), a key it leaves out takes the field of
\* Config::default()
from_str(f) ==
  [interval |-> IF is_none(f.interval) THEN Config_default.interval
                ELSE f.interval,
   duration |-> IF is_none(f.duration) THEN Config_default.duration
                ELSE f.duration,
   flash_interval |-> IF is_none(f.flash_interval)
                      THEN Config_default.flash_interval
                      ELSE f.flash_interval]

\* lines 80-92
read_config(f) == IF f.exists THEN from_str(f) ELSE Config_default

Override_fileFirst(config, a) ==
  [interval |-> IF is_none(config.interval) THEN a.interval
                ELSE config.interval,
   duration |-> IF is_none(config.duration) THEN a.duration
                ELSE config.duration,
   flash_interval |-> IF is_none(config.flash_interval) THEN a.flash_interval
                      ELSE config.flash_interval]

\* lines 110-118: a command-line value replaces the field of config
Override(config, a) ==
  [interval |-> IF is_none(a.interval) THEN config.interval ELSE a.interval,
   duration |-> IF is_none(a.duration) THEN config.duration ELSE a.duration,
   flash_interval |-> IF is_none(a.flash_interval) THEN config.flash_interval
                      ELSE a.flash_interval]

\* lines 106-118: config as main holds it after the merge
MergedConfig(a, f) == Override(read_config(f), a)

\* the command lines and config files the exploration starts from
OptionOf(S) == {None} \cup {Some(x) : x \in S}

ArgChoices ==
  [interval : OptionOf(0..MaxIntervalSecs),
   duration : OptionOf(0..MaxDurationSecs),
   flash_interval : OptionOf(FlashMillis)]

NoFile ==
  [exists |-> FALSE, interval |-> None, duration |-> None,
   flash_interval |-> None]

FileChoices ==
  {NoFile} \cup [exists : {TRUE}, interval : OptionOf({1}),
                 duration : OptionOf({2}), flash_interval : OptionOf({300})]

\* main up to event_loop.run (lines 94-166), started with command line a and
\* config file f
InitFrom(a, f) ==
  /\ args = a
  /\ file = f
  /\ reminder_interval = from_secs(unwrap_or(MergedConfig(a, f).interval, 1200))
  /\ reminder_duration = from_secs(unwrap_or(MergedConfig(a, f).duration, 60))
  /\ switch_interval =
       from_millis(unwrap_or(MergedConfig(a, f).flash_interval, 1000))
  /\ last_reminder = 0
  /\ reminder_start = None
  /\ last_switch = 0
  /\ color_index = 0
  /\ pixels = None
  /\ window = InitWindow
  /\ redraw_requested = FALSE
  /\ control_flow = Poll
  /\ now = 0
  /\ ev = "init"
  /\ last = NoTick
  /\ advances = 0
  /\ nAdvances = 0
  /\ zeroDelay = 0
  /\ startLog = {}
  /\ endLog = {}
  /\ advLog = {}
  /\ endIndex = 0
  /\ deviations = 0
  /\ renderFailed = FALSE
  /\ fs_sync \in BOOLEAN

\* every value given on the command line, no config file
Init ==
  \E a \in ArgChoices :
    /\ ~is_none(a.interval) /\ ~is_none(a.duration) /\ ~is_none(a.flash_interval)
    /\ InitFrom(a, NoFile)

\* any command line, any config file
InitConfig == \E a \in ArgChoices, f \in FileChoices : InitFrom(a, f)

\* ---- the pieces of the MainEventsCleared handler -------------------------

ShouldStart_never(n, rs, lr) == FALSE

\* line 174: is a reminder due?
ShouldStart(n, rs, lr) == is_none(rs) /\ n - lr >= reminder_interval

NextSwitch_nostep(ls) == ls

\* line 197
NextSwitch(ls) == ls + switch_interval

\* line 198
NextEnd(start_time) == start_time + reminder_duration

\* line 201
ShouldSwitch(n, next_switch) == n >= next_switch

Advance_mod7(i) == (i + 1) % (Len(colors) - 1)

\* line 204
Advance(i) == (i + 1) % Len(colors)

ShouldEnd_strict(n, next_end) == n > next_end

\* line 209
ShouldEnd(n, next_end) == n >= next_end

\* line 223
NextEvent(next_switch, next_end) ==
  IF next_switch <= next_end THEN next_switch ELSE next_end

NextReminder_late(lr) == lr + reminder_interval + reminder_duration

\* line 228
NextReminder(lr) == lr + reminder_interval

\* lines 178-191: the window calls of the start branch, in program order
StartCommands ==
  << "set_always_on_top(true)", "set_fullscreen(Borderless)",
     "set_visible(true)", "request_redraw" >>

\* line 206
SwitchCommands == << "request_redraw" >>

\* lines 213-217: the window calls of the end branch, in program order
EndCommands ==
  << "set_visible(false)", "set_fullscreen(None)", "set_always_on_top(false)" >>

\* window.inner_size() once the window system has applied the fullscreen flag
TargetSize(w) == IF w.fullscreen THEN ScreenSize ELSE WindowedSize

\* set_fullscreen: the new geometry is in place on return, or arrives later
Resize(w) == IF fs_sync THEN [w EXCEPT !.size = TargetSize(w)] ELSE w

\* lines 178-181
ShowWindow(w) ==
  Resize([w EXCEPT !.always_on_top = TRUE, !.fullscreen = TRUE,
                   !.visible = TRUE])

HideWindow_keepTop(w) ==
  Resize([w EXCEPT !.visible = FALSE, !.fullscreen = FALSE])

\* lines 213-217
HideWindow(w) ==
  Resize([w EXCEPT !.visible = FALSE, !.fullscreen = FALSE,
                   !.always_on_top = FALSE])

\* lines 184-188
InitPixels(p, w) == IF is_none(p) THEN Some(w.size) ELSE p

\* The instant at which the host runs the closure next: at once when polling
\* or when the deadline is not in the future, otherwise at the deadline.
WakeTime ==
  IF control_flow.kind = "WaitUntil" /\ control_flow.at > now
  THEN control_flow.at
  ELSE now

\* Event::MainEventsCleared, lines 170-231.  n1 is the clock read at line 171
\* (the start test and reminder_start use it), n2 the clock read at line 199
\* (the switch test, the end test, last_switch and last_reminder use it).
MainEventsCleared(n1, n2) ==
  LET start   == ShouldStart(n1, reminder_start, last_reminder)
      rs1     == IF start THEN Some(n1) ELSE reminder_start
      w1      == IF start THEN ShowWindow(window) ELSE window
      px1     == IF start THEN InitPixels(pixels, w1) ELSE pixels
      active  == ~is_none(rs1)
      next_switch == NextSwitch(last_switch)
      next_end    == IF active THEN NextEnd(unwrap(rs1)) ELSE 0
      switch  == active /\ ShouldSwitch(n2, next_switch)
      end     == active /\ ShouldEnd(n2, next_end)
  IN
  /\ reminder_start' = IF end THEN None ELSE rs1
  /\ last_switch' = IF switch THEN n2 ELSE last_switch
  /\ color_index' = IF switch THEN Advance(color_index) ELSE color_index
  /\ last_reminder' = IF end THEN n2 ELSE last_reminder
  /\ window' = IF end THEN HideWindow(w1) ELSE w1
  /\ pixels' = px1
  /\ redraw_requested' = (redraw_requested \/ start \/ switch)
  /\ control_flow' =
       IF active
       THEN IF end THEN control_flow
                   ELSE WaitUntil(NextEvent(next_switch, next_end))
       ELSE WaitUntil(NextReminder(last_reminder))
  /\ now' = IF active THEN n2 ELSE n1
  /\ ev' = "tick"
  /\ last' = [ticked |-> TRUE, now |-> n1, wasActive |-> ~is_none(reminder_start),
              entered |-> start, switched |-> switch,
              dup |-> (switch /\ n2 \in advLog), ended |-> end,
              index0 |-> color_index, last_reminder0 |-> last_reminder,
              last_switch0 |-> last_switch, endIndex0 |-> endIndex,
              cmds |-> (IF start THEN StartCommands ELSE << >>)
                         \o (IF switch THEN SwitchCommands ELSE << >>)
                         \o (IF end THEN EndCommands ELSE << >>),
              start0 |-> reminder_start]
  /\ advances' = (IF start THEN 0 ELSE advances) + (IF switch THEN 1 ELSE 0)
  /\ nAdvances' = nAdvances + (IF switch THEN 1 ELSE 0)
  /\ zeroDelay' = IF ~last.ticked \/ n1 > now THEN 0 ELSE zeroDelay + 1
  /\ startLog' = IF start THEN startLog \cup {n1} ELSE startLog
  /\ endLog' = IF end THEN endLog \cup {n2} ELSE endLog
  /\ advLog' = IF switch THEN advLog \cup {n2} ELSE advLog
  /\ endIndex' = IF end THEN color_index' ELSE endIndex
  /\ UNCHANGED << params, renderFailed, fs_sync >>

\* What bounds a run of the closure.
CanTick ==
  /\ control_flow.kind # "Exit"
  /\ nAdvances < MaxAdvances
  /\ zeroDelay < MaxZeroDelay

\* The deadline-exact host: it runs the closure for MainEventsCleared exactly
\* at the wake time, and one run of the handler takes no clock time.
Tick ==
  /\ CanTick
  /\ WakeTime <= MaxTime
  /\ MainEventsCleared(WakeTime, WakeTime)
  /\ UNCHANGED deviations

\* A host with jitter: it may run the closure late, or early because some
\* other event woke the loop, and the clock may move between the two reads
\* of one handler run.  At most MaxDeviations runs deviate.
Lates == {0, 200}

Earlies == {100}

Skews == {0, 100}

WakeChoices ==
  {WakeTime + l : l \in Lates}
    \cup {t \in {now + e : e \in Earlies} : t < WakeTime}

TickJitter ==
  /\ CanTick
  /\ \E n1 \in WakeChoices, skew \in Skews :
       LET dev == IF n1 # WakeTime \/ skew # 0 THEN 1 ELSE 0 IN
       /\ n1 + skew <= MaxTime
       /\ deviations + dev <= MaxDeviations
       /\ deviations' = deviations + dev
       /\ MainEventsCleared(n1, n1 + skew)

\* pixels.render(): the presentation succeeds or fails
RenderResults == {"Ok", "Err"}

\* pixels.render() is reached only when the framebuffer exists (line 234)
Rendered(px) == ~is_none(px)

RenderOutcome_ignore(cf, px, res) == cf

RenderOutcome_always(cf, px, res) == IF res = "Err" THEN Exit ELSE cf

\* lines 234-246: *control_flow = ControlFlow::Exit when render() fails
RenderOutcome(cf, px, res) ==
  IF Rendered(px) /\ res = "Err" THEN Exit ELSE cf

\* Event::RedrawRequested, lines 233-247.
RedrawRequested(res) ==
  /\ control_flow' = RenderOutcome(control_flow, pixels, res)
  /\ renderFailed' = (renderFailed \/ (Rendered(pixels) /\ res = "Err"))
  /\ redraw_requested' = FALSE
  /\ ev' = IF redraw_requested THEN "redraw" ELSE "expose"
  /\ UNCHANGED << params, last_reminder, reminder_start, last_switch,
                  color_index, pixels, window, now, last, advances, nAdvances,
                  zeroDelay, startLog, endLog, advLog, endIndex, deviations,
                  fs_sync >>

\* The redraw the closure asked for with window.request_redraw().
Redraw ==
  /\ control_flow.kind # "Exit"
  /\ redraw_requested
  /\ \E res \in RenderResults : RedrawRequested(res)

\* A RedrawRequested event the window system sends on its own account.
Expose ==
  /\ control_flow.kind # "Exit"
  /\ ~redraw_requested
  /\ \E res \in RenderResults : RedrawRequested(res)

\* The window system applies the geometry the fullscreen flag asks for; the
\* closure ignores the window event (line 268, the handler of lines 249-266
\* is commented out).
WindowResized ==
  /\ control_flow.kind # "Exit"
  /\ window.size # TargetSize(window)
  /\ window' = [window EXCEPT !.size = TargetSize(window)]
  /\ UNCHANGED << params, last_reminder, reminder_start, last_switch,
                  color_index, pixels, redraw_requested, control_flow, now, ev,
                  last, advances, nAdvances, zeroDelay, startLog, endLog,
                  advLog, endIndex, deviations, renderFailed, fs_sync >>

Next == Tick \/ Redraw \/ Expose \/ WindowResized

Spec == Init /\ [][Next]_vars

\* The host with jitter, on a platform whose set_fullscreen is synchronous
\* (no window event is ever pending).
InitJitter == Init /\ fs_sync

NextJitter == TickJitter \/ Redraw \/ Expose

SpecJitter == InitJitter /\ [][NextJitter]_vars

SpecConfig == InitConfig /\ [][Next]_vars

\* A host on which no presentation fails and which keeps running the closure:
\* MainEventsCleared is delivered at or after every deadline (or early).
PresentOk ==
  /\ control_flow.kind # "Exit"
  /\ redraw_requested
  /\ RedrawRequested("Ok")

\* positive interval, duration and flash_interval on the command line, on a
\* platform whose set_fullscreen is synchronous (no window event is pending)
InitLive ==
  /\ InitJitter
  /\ reminder_interval > 0 /\ reminder_duration > 0 /\ switch_interval > 0

NextLive == TickJitter \/ PresentOk

SpecLive == InitLive /\ [][NextLive]_vars /\ WF_vars(TickJitter)

\* ---- properties ------------------------------------------------------------

Active == ~is_none(reminder_start)

Idle == is_none(reminder_start)

Positive ==
  reminder_interval > 0 /\ reminder_duration > 0 /\ switch_interval > 0

Min2(a, b) == IF a <= b THEN a ELSE b

\* C1: with positive interval, duration and flashInterval and a host that
\* ticks exactly at every returned deadline, the state is never Active before
\* t = interval, the first Active period begins at the tick with
\* now = interval and it ends at the tick with now = interval + duration.
C1_FirstPeriod ==
  Positive =>
    /\ Active => now >= reminder_interval
    /\ \A t \in startLog : t >= reminder_interval
    /\ (ev # "init" /\ now >= reminder_interval)
         => reminder_interval \in startLog
    /\ \A t \in endLog : t >= reminder_interval + reminder_duration
    /\ (reminder_interval \in startLog
          /\ now < reminder_interval + reminder_duration)
         => reminder_start = Some(reminder_interval)
    /\ (ev # "init" /\ now >= reminder_interval + reminder_duration)
         => reminder_interval + reminder_duration \in endLog

C1_Witness ==
  /\ Positive
  /\ ev = "tick"
  /\ last.ended
  /\ last.now = reminder_interval + reminder_duration
  /\ startLog = {reminder_interval}
  /\ Idle

Scenario ==
  /\ reminder_interval = 2000
  /\ reminder_duration = 1000
  /\ switch_interval = 500

\* C2: in the scenario interval = 2 s, duration = 1 s, flashInterval = 500 ms
\* the state is Idle before 2 s, becomes Active at 2 s with a colour advance
\* on the entry tick, the colour advances again at 2.5 s, the state returns to
\* Idle at 3 s with lastReminderEnd = 3 s and the window hidden, and the next
\* Active period begins at 5 s; for every parameter choice an Active period
\* begins exactly interval after the lastReminderEnd it found.
C2_Scenario ==
  /\ (ev = "tick" /\ last.entered)
       => last.now = last.last_reminder0 + reminder_interval
  /\ Scenario =>
       /\ now < 2000 => Idle
       /\ (ev # "init" /\ now >= 2000) => 2000 \in startLog
       /\ (ev = "tick" /\ last.entered /\ last.now = 2000) => last.switched
       /\ (2000 \in startLog /\ now < 3000) => reminder_start = Some(2000)
       /\ now >= 3000 => {2000, 2500} \subseteq advLog
       /\ \A t \in advLog : t < 3000 => t \in {2000, 2500}
       /\ (ev = "tick" /\ last.ended /\ last.now < 5000)
            => /\ last.now = 3000
               /\ last_reminder = 3000
               /\ Idle
               /\ ~window.visible
       /\ (ev # "init" /\ now >= 3000)
            => (3000 \in endLog /\ last_reminder >= 3000)
       /\ (now >= 3000 /\ now < 5000) => (Idle /\ last_reminder = 3000)
       /\ \A t \in startLog : t \in {2000} \/ t >= 5000
       /\ (ev # "init" /\ now >= 5000) => 5000 \in startLog

C2_Witness ==
  /\ Scenario
  /\ ev = "tick"
  /\ last.entered
  /\ last.now = 5000
  /\ startLog = {2000, 5000}
  /\ endLog = {3000}

\* C3: counting every colour advance from the tick that enters Active up to
\* and including the tick that returns to Idle, the number of advances of one
\* Active period equals floor(duration / flashInterval).
C3_AdvanceCount ==
  (switch_interval > 0 /\ ev = "tick" /\ last.ended)
    => advances = reminder_duration \div switch_interval

\* C4: after every tick that leaves the state Idle, the transition tick
\* included, the wake deadline handed to the host is lastReminderEnd + interval.
C4_IdleDeadline ==
  (ev = "tick" /\ Idle)
    => control_flow = WaitUntil(last_reminder + reminder_interval)

\* C5: after every tick that leaves the state Active the wake deadline is
\* min(lastSwitch + flashInterval, activeStart + duration), with lastSwitch as
\* that tick left it, and it is never earlier than the tick's now.
C5_ActiveDeadline ==
  (ev = "tick" /\ Active)
    => /\ control_flow =
            WaitUntil(Min2(last_switch + switch_interval,
                           unwrap(reminder_start) + reminder_duration))
       /\ control_flow.at >= now

\* C6: with flashInterval = 0 the switch interval used is clamped to a
\* positive minimum: two colour advances never happen at the same instant and
\* the deadline left by a tick that switched colour and stays Active is
\* strictly later than now.
C6_FlashClamp ==
  (switch_interval = 0 /\ ev = "tick" /\ last.switched)
    => /\ ~last.dup
       /\ Active => (control_flow.kind = "WaitUntil" /\ control_flow.at > now)

\* C7: with duration = 0 the tick that enters Active at T advances no colour
\* and leaves the state Active; the following tick returns to Idle, again
\* without a colour advance, and lastReminderEnd is then T.
C7_ZeroDuration ==
  (reminder_duration = 0 /\ ev = "tick")
    => /\ last.entered => (Active /\ ~last.switched)
       /\ last.ended => /\ last.wasActive
                        /\ advances = 0
                        /\ last_reminder \in startLog

\* C8: with interval = 0 and flashInterval > 0, for every duration, every tick
\* leaves the host a concrete wake instant (never the initial polling mode) and
\* the run of ticks at one instant stays below the exploration cap.
C8_ZeroInterval ==
  (reminder_interval = 0 /\ switch_interval > 0 /\ ev = "tick")
    => /\ control_flow.kind # "Poll"
       /\ zeroDelay + 1 < MaxZeroDelay

\* C9: the colour index is never reset: a tick that starts and stays Idle
\* leaves it unchanged, the Active -> Idle transition tick leaves it at the
\* value it held before that tick, and an Active period starts with the index
\* the previous Active period ended with.
C9_IndexKept ==
  ev = "tick"
    => /\ (~last.wasActive /\ ~last.entered) => color_index = last.index0
       /\ last.ended => color_index = last.index0
       /\ last.entered => last.index0 = last.endIndex0

\* C11: if presenting a frame fails while a redraw is serviced, control flow
\* becomes Exit and stays Exit: the host stops running the closure, so no later
\* step changes the reminder state, the colour index or the window, or
\* replaces Exit by a wake deadline.
C11_ExitOnRenderFailure ==
  /\ [](renderFailed => control_flow = Exit)
  /\ [][control_flow = Exit
          => /\ control_flow' = Exit
             /\ UNCHANGED << reminder_start, last_reminder, last_switch,
                             color_index, window >>]_vars

C11_Witness ==
  /\ renderFailed
  /\ ev = "redraw"
  /\ control_flow = Exit
  /\ Active
  /\ window.visible

\* C12: the framebuffer is acquired at the first Idle -> Active transition and
\* re-acquired whenever the window's dimensions change, so whenever a frame is
\* filled and presented the framebuffer has the window's current dimensions.
C12_FramebufferSize ==
  /\ is_none(pixels) <=> startLog = {}
  /\ (ev \in {"redraw", "expose"} /\ Rendered(pixels))
       => unwrap(pixels) = window.size

ShowCommands ==
  {"set_always_on_top(true)", "set_fullscreen(Borderless)", "set_visible(true)"}

Positions(cmds, c) == {i \in DOMAIN cmds : cmds[i] = c}

\* C13: in every Active period set-always-on-top, enter-fullscreen and show
\* are issued before the first redraw request, and hide is issued after the
\* last redraw: once hide has been issued no redraw is requested and none of
\* the closure's redraw requests is serviced.
C13_CommandOrder ==
  /\ (ev = "tick" /\ last.entered)
       => \A i \in Positions(last.cmds, "request_redraw") :
            \A c \in ShowCommands :
              \E j \in Positions(last.cmds, c) : j < i
  /\ ev = "tick"
       => \A i \in Positions(last.cmds, "request_redraw") :
            \A j \in Positions(last.cmds, "set_visible(false)") : i < j
  /\ (ev = "tick" /\ ~last.wasActive /\ ~last.entered) => last.cmds = << >>
  /\ ev = "redraw" => (Active /\ window.visible)

\* the value of one field by the documented precedence: command line, then
\* config file, then default
Resolved(cli, exists, given, default) ==
  IF Len(cli) = 1 THEN cli[1]
  ELSE IF exists /\ Len(given) = 1 THEN given[1]
  ELSE default

\* C14: for interval, duration and flashInterval independently, the state
\* machine receives the command-line value when one is given, otherwise the
\* config-file value when the file gives one, otherwise the default (1200 s,
\* 60 s, 1000 ms).
C14_ConfigPrecedence ==
  /\ reminder_interval
       = 1000 * Resolved(args.interval, file.exists, file.interval, 1200)
  /\ reminder_duration
       = 1000 * Resolved(args.duration, file.exists, file.duration, 60)
  /\ switch_interval
       = Resolved(args.flash_interval, file.exists, file.flash_interval, 1000)

C14_Witness ==
  /\ ev = "tick"
  /\ args.interval = Some(2) /\ file.interval = Some(1)
  /\ args.duration = None /\ file.exists /\ file.duration = Some(2)
  /\ args.flash_interval = None /\ file.flash_interval = None
  /\ reminder_interval = 2000
  /\ reminder_duration = 2000
  /\ switch_interval = 1000

\* C15: every Idle -> Active transition sets both activeStart and lastSwitch
\* to the tick's now, for all parameter values, so that after the entry tick
\* nextSwitch = now + flashInterval.
C15_EntrySetsInstants ==
  (ev = "tick" /\ last.entered)
    => /\ last.now \in startLog
       /\ Active => reminder_start = Some(last.now)
       /\ last_switch = last.now
       /\ NextSwitch(last_switch) = last.now + switch_interval

\* C16: a tick that finds the state Active advances the colour and requests a
\* redraw only if now >= lastSwitch + flashInterval and now < activeStart +
\* duration; a tick with now >= activeStart + duration performs the
\* Active -> Idle transition and emits only hide, exit-fullscreen and
\* unset-always-on-top, with no colour advance and no redraw request.
C16_SwitchOnlyBeforeEnd ==
  (ev = "tick" /\ last.wasActive)
    => /\ last.switched
            => /\ last.now >= last.last_switch0 + switch_interval
               /\ last.now < unwrap(last.start0) + reminder_duration
       /\ Positions(last.cmds, "request_redraw") # {} => last.switched
       /\ last.now >= unwrap(last.start0) + reminder_duration
            => /\ last.ended
               /\ Idle
               /\ last.cmds = EndCommands
               /\ color_index = last.index0

\* C17: servicing a redraw event leaves the Idle/Active state, activeStart,
\* lastSwitch, lastReminderEnd, the colour index and the window unchanged, and
\* leaves the wake deadline unchanged unless presentation fails; a redraw
\* serviced before the framebuffer exists changes nothing.
C17_RedrawFrame ==
  [][(Redraw \/ Expose)
       => /\ UNCHANGED << reminder_start, last_switch, last_reminder,
                          color_index, window, pixels, now >>
          /\ control_flow' # control_flow
               => (control_flow' = Exit /\ renderFailed' /\ Rendered(pixels))
          /\ is_none(pixels)
               => UNCHANGED << control_flow, renderFailed >>]_vars

C17_Witness ==
  /\ ev = "expose"
  /\ is_none(pixels)
  /\ control_flow.kind = "WaitUntil"
  /\ ~renderFailed

\* C18: the window is visible, fullscreen and always-on-top exactly when the
\* state is Active, and hidden, windowed and not always-on-top exactly when it
\* is Idle, after every tick and redraw and for every parameter choice.
C18_WindowMatchesState ==
  /\ window.visible <=> Active
  /\ window.fullscreen <=> Active
  /\ window.always_on_top <=> Active

C18_Witness ==
  /\ reminder_duration = 0
  /\ ev = "tick"
  /\ last.entered
  /\ last.ended
  /\ Idle
  /\ ~window.visible /\ ~window.fullscreen /\ ~window.always_on_top

\* C19: with positive parameters and the deadline-exact host, at most one
\* tick runs at the instant of the tick before it: such a zero-delay tick
\* follows a tick that switched colour or ended the Active period, and it
\* leaves a deadline strictly later than now.
C19_ZeroDelayBound ==
  /\ [](Positive => zeroDelay <= 1)
  /\ [][(Tick /\ Positive /\ zeroDelay' > 0)
          => /\ last.switched \/ last.ended
             /\ zeroDelay' = 1
             /\ control_flow'.kind = "WaitUntil"
             /\ control_flow'.at > now']_vars

C19_Witness ==
  /\ Positive
  /\ ev = "tick"
  /\ zeroDelay = 1
  /\ Idle
  /\ endLog # {}
  /\ control_flow = WaitUntil(last_reminder + reminder_interval)
  /\ control_flow.at > now

\* C20: with positive parameters, no presentation failure and a host that
\* keeps ticking at or after every deadline, every Active period that is due
\* to end within the explored time ends, and every Idle period whose reminder
\* is due within the explored time is followed by an Active period (unless
\* the explored number of colour advances is used up first).
C20_Recurs ==
  /\ (Positive /\ Active
        /\ unwrap(reminder_start) + reminder_duration <= MaxTime)
       ~> (Idle \/ nAdvances >= MaxAdvances)
  /\ (Positive /\ Idle /\ last_reminder + reminder_interval <= MaxTime)
       ~> (Active \/ nAdvances >= MaxAdvances)

C20_Witness ==
  /\ Positive
  /\ Active
  /\ Cardinality(startLog) >= 2
  /\ Cardinality(endLog) >= 1
  /\ nAdvances < MaxAdvances

\* C10: every colour advance maps the index i to (i + 1) mod 8, the index is
\* always in [0, 8), and 8 advances return it to its original value (the index
\* is the number of advances modulo 8).
C10_Cycle ==
  /\ color_index \in 0..7
  /\ Len(colors) = 8
  /\ color_index = nAdvances % 8
  /\ last.switched => color_index = (last.index0 + 1) % 8
  /\ ~last.switched => color_index = last.index0

C10_Witness ==
  /\ nAdvances = 8
  /\ color_index = 0
  /\ ev = "tick"
  /\ last.switched
  /\ last.index0 = 7

TypeOK ==
  /\ color_index \in 0..(Len(colors) - 1)
  /\ control_flow.kind \in {"Poll", "WaitUntil", "Exit"}
  /\ Len(reminder_start) <= 1
====
